---------------------------- MODULE Spec2Model ----------------------------
(***************************************************************************)
(* A model of the fixed32-math crate (src/src/lib.rs): 2D vectors and      *)
(* axis-aligned rectangles over the 16.16 fixed-point scalar fixed32::Fp.  *)
(*                                                                         *)
(* An Fp is modelled by its raw integer (value * 65536).  A Vector is the  *)
(* record [x, y] of two raws, a Rect the record [pos, size] of two         *)
(* Vectors.  Every library function is an operator of the same name.       *)
(*                                                                         *)
(* Every library function is pure, except Vector's +=, which changes its  *)
(* receiver.  The state machine is a caller that holds a rectangle r, a    *)
(* second rectangle other and a vector v, and applies one library function *)
(* per step.  Functions that return a Rect store it back into r, and += is *)
(* applied to v, so that sequences of operations are covered.              *)
(*                                                                         *)
(* Domain: all inputs and all results reached within MaxSteps stay far     *)
(* inside the i32 range of the raw value, so no Fp addition or             *)
(* subtraction overflows.                                                  *)
(***************************************************************************)
EXTENDS Integers, Sequences, FiniteSets

\* Number of value-changing operations (a Rect produced, or v += rhs)
\* applied in one run of the caller.
MaxSteps == 2

(***************************************************************************)
(* fixed32::Fp, the external scalar (16 fractional bits).                  *)
(***************************************************************************)
SCALE == 65536

Fp_from_i16(n) == n * SCALE

Fp_add(p, q) == p + q

Fp_sub(p, q) == p - q

Fp_min(p, q) == IF q < p THEN q ELSE p

Fp_max(p, q) == IF q > p THEN q ELSE p

Fp_is_zero(p) == p = 0

\* floor(m * n / 2^16) for 0 <= m, n < 2^16, without leaving 31 bits.
MulLow(m, n) == (((m \div 256) * n) + (((m % 256) * n) \div 256)) \div 256

\* The 64-bit product shifted right by 16 (arithmetic shift: floor).
Fp_mul(p, q) ==
    LET ph == p \div SCALE
        pl == p % SCALE
        qh == q \div SCALE
        ql == q % SCALE
    IN  ph * q + pl * qh + MulLow(pl, ql)

Abs(p) == IF p < 0 THEN 0 - p ELSE p

\* floor(m * 2^16 / n) for 0 <= m < n < 2^23, one byte of quotient at a time.
DivFrac(m, n) ==
    LET d1 == (m * 256) \div n
        r1 == (m * 256) % n
    IN  d1 * 256 + ((r1 * 256) \div n)

\* (p * 2^16) / q in 64 bits, truncated toward zero; q is not zero.
Fp_div(p, q) ==
    LET m == Abs(p)
        n == Abs(q)
        mag == (m \div n) * SCALE + DivFrac(m % n, n)
    IN  IF (p < 0) = (q < 0) THEN mag ELSE 0 - mag

\* Whether g * g <= p * 2^16, for 0 <= g <= 11863283 and 0 <= p < 2^31,
\* without leaving 31 bits: with g = 256 * gh + gl and d = p - gh * gh it is
\* 512 * (128 * d - gh * gl) >= gl * gl, where gh * gl < 2^24 and
\* gl * gl < 2^16, so that d >= 2^17 settles it.
SqLe(g, p) ==
    LET gh == g \div 256
        gl == g % 256
        d  == p - gh * gh
    IN  IF d < 0 THEN FALSE
        ELSE IF d >= 131072 THEN TRUE
        ELSE LET t == 128 * d - gh * gl
             IN  IF t < 0 THEN FALSE
                 ELSE IF t >= 128 THEN TRUE
                 ELSE 512 * t >= gl * gl

RECURSIVE SqrtSearch(_, _, _)
\* The largest g in lo..hi with g * g <= p * 2^16 (lo satisfies it).
SqrtSearch(p, lo, hi) ==
    IF lo = hi THEN lo
    ELSE LET mid == (lo + hi + 1) \div 2
         IN  IF SqLe(mid, p) THEN SqrtSearch(p, mid, hi)
             ELSE SqrtSearch(p, lo, mid - 1)

\* The square root of a non-negative Fp, rounded down to a raw step.
Fp_sqrt(p) == IF p <= 0 THEN 0 ELSE SqrtSearch(p, 0, 11863283)

(***************************************************************************)
(* Vector                                                                  *)
(***************************************************************************)
Vector_new(x, y) == [x |-> x, y |-> y]

Vector_from(x, y) == [x |-> Fp_from_i16(x), y |-> Fp_from_i16(y)]

Vector_add(p, q) == [x |-> Fp_add(p.x, q.x), y |-> Fp_add(p.y, q.y)]

Vector_sub(p, q) == [x |-> Fp_sub(p.x, q.x), y |-> Fp_sub(p.y, q.y)]

Vector_mul_fp(p, k) == [x |-> Fp_mul(p.x, k), y |-> Fp_mul(p.y, k)]

\* impl AddAssign for Vector: the receiver after self += rhs.
add_assign(p, rhs) == [x |-> Fp_add(p.x, rhs.x), y |-> Fp_add(p.y, rhs.y)]

sqr_len(p) == Fp_add(Fp_mul(p.x, p.x), Fp_mul(p.y, p.y))

len(p) == Fp_sqrt(sqr_len(p))

ZeroVector == [x |-> 0, y |-> 0]

\* Option<Vector>: some = FALSE is None (vec is then the zero vector).
normalize(p) ==
    LET length == len(p)
    IN  IF Fp_is_zero(length)
        THEN [some |-> FALSE, vec |-> ZeroVector]
        ELSE [some |-> TRUE,
              vec |-> [x |-> Fp_div(p.x, length), y |-> Fp_div(p.y, length)]]

(***************************************************************************)
(* Rect                                                                    *)
(***************************************************************************)
Rect_from(x, y, w, h) == [pos |-> Vector_from(x, y), size |-> Vector_from(w, h)]

top(s) == Fp_add(s.pos.y, s.size.y)

bottom(s) == s.pos.y

left(s) == s.pos.x

right(s) == Fp_add(s.pos.x, s.size.x)

\* Mutant of move_by: the offset is added to the size as well.
move_by_resizing(s, offset) ==
    [pos |-> Vector_add(s.pos, offset), size |-> Vector_add(s.size, offset)]

move_by(s, offset) == [pos |-> Vector_add(s.pos, offset), size |-> s.size]

\* core::ops::Range<Fp>::is_empty: !(start < end).
Range_is_empty(start, end) == ~(start < end)

ZeroRect == [pos |-> ZeroVector, size |-> ZeroVector]

\* Mutant of intersection: only a reversed interval counts as empty, so
\* edge-touching rectangles get a zero-size Some.
intersection_touching(s, o) ==
    LET xs == Fp_max(s.pos.x, o.pos.x)
        xe == Fp_min(Fp_add(s.pos.x, s.size.x), Fp_add(o.pos.x, o.size.x))
        ys == Fp_max(s.pos.y, o.pos.y)
        ye == Fp_min(Fp_add(s.pos.y, s.size.y), Fp_add(o.pos.y, o.size.y))
    IN  IF xe < xs \/ ye < ys
        THEN [some |-> FALSE, rect |-> ZeroRect]
        ELSE [some |-> TRUE,
              rect |-> [pos  |-> [x |-> xs, y |-> ys],
                        size |-> [x |-> Fp_sub(xe, xs), y |-> Fp_sub(ye, ys)]]]

\* Option<Rect>: some = FALSE is None (rect is then the zero rect).
intersection(s, o) ==
    LET xs == Fp_max(s.pos.x, o.pos.x)
        xe == Fp_min(Fp_add(s.pos.x, s.size.x), Fp_add(o.pos.x, o.size.x))
        ys == Fp_max(s.pos.y, o.pos.y)
        ye == Fp_min(Fp_add(s.pos.y, s.size.y), Fp_add(o.pos.y, o.size.y))
    IN  IF Range_is_empty(xs, xe) \/ Range_is_empty(ys, ye)
        THEN [some |-> FALSE, rect |-> ZeroRect]
        ELSE [some |-> TRUE,
              rect |-> [pos  |-> [x |-> xs, y |-> ys],
                        size |-> [x |-> Fp_sub(xe, xs), y |-> Fp_sub(ye, ys)]]]

\* Mutant of union: the far corner is stored as the size.
union_far_as_size(s, o) ==
    LET x_min == Fp_min(s.pos.x, o.pos.x)
        y_min == Fp_min(s.pos.y, o.pos.y)
        x_max == Fp_max(Fp_add(s.pos.x, s.size.x), Fp_add(o.pos.x, o.size.x))
        y_max == Fp_max(Fp_add(s.pos.y, s.size.y), Fp_add(o.pos.y, o.size.y))
    IN  [pos  |-> [x |-> x_min, y |-> y_min],
         size |-> [x |-> x_max, y |-> y_max]]

\* Mutant of union: the size is the near corner minus the far corner.
union_swapped_difference(s, o) ==
    LET x_min == Fp_min(s.pos.x, o.pos.x)
        y_min == Fp_min(s.pos.y, o.pos.y)
        x_max == Fp_max(Fp_add(s.pos.x, s.size.x), Fp_add(o.pos.x, o.size.x))
        y_max == Fp_max(Fp_add(s.pos.y, s.size.y), Fp_add(o.pos.y, o.size.y))
    IN  [pos  |-> [x |-> x_min, y |-> y_min],
         size |-> [x |-> Fp_sub(x_min, x_max), y |-> Fp_sub(y_min, y_max)]]

\* Mutant of union: other's far corner is computed with self's size.
union_self_extent(s, o) ==
    LET x_min == Fp_min(s.pos.x, o.pos.x)
        y_min == Fp_min(s.pos.y, o.pos.y)
        x_max == Fp_max(Fp_add(s.pos.x, s.size.x), Fp_add(o.pos.x, s.size.x))
        y_max == Fp_max(Fp_add(s.pos.y, s.size.y), Fp_add(o.pos.y, s.size.y))
    IN  [pos  |-> [x |-> x_min, y |-> y_min],
         size |-> [x |-> Fp_sub(x_max, x_min), y |-> Fp_sub(y_max, y_min)]]

union(s, o) ==
    LET x_min == Fp_min(s.pos.x, o.pos.x)
        y_min == Fp_min(s.pos.y, o.pos.y)
        x_max == Fp_max(Fp_add(s.pos.x, s.size.x), Fp_add(o.pos.x, o.size.x))
        y_max == Fp_max(Fp_add(s.pos.y, s.size.y), Fp_add(o.pos.y, o.size.y))
    IN  [pos  |-> [x |-> x_min, y |-> y_min],
         size |-> [x |-> Fp_sub(x_max, x_min), y |-> Fp_sub(y_max, y_min)]]

\* Mutant of contains_point: the upper bounds are inclusive.
contains_point_closed(s, point) ==
    /\ point.x >= s.pos.x
    /\ point.x <= Fp_add(s.pos.x, s.size.x)
    /\ point.y >= s.pos.y
    /\ point.y <= Fp_add(s.pos.y, s.size.y)

contains_point(s, point) ==
    /\ point.x >= s.pos.x
    /\ point.x < Fp_add(s.pos.x, s.size.x)
    /\ point.y >= s.pos.y
    /\ point.y < Fp_add(s.pos.y, s.size.y)

\* Mutant of contains_rect: the far corner is tested against the closed
\* upper bounds.
contains_rect_closed_far(s, o) ==
    /\ contains_point(s, o.pos)
    /\ contains_point_closed(s, Vector_add(o.pos, o.size))

contains_rect(s, o) ==
    contains_point(s, o.pos) /\ contains_point(s, Vector_add(o.pos, o.size))

\* Mutant of is_overlapping: the two vertical comparisons point the wrong
\* way, as if y grew downwards.
is_overlapping_y_flipped(s, o) ==
    ~(\/ right(s) < left(o)
      \/ left(s) > right(o)
      \/ bottom(s) < top(o)
      \/ top(s) > bottom(o))

\* Mutant of is_overlapping: the comparisons are not strict, so touching
\* rectangles count as separated.
is_overlapping_exclusive(s, o) ==
    ~(\/ right(s) <= left(o)
      \/ left(s) >= right(o)
      \/ bottom(s) >= top(o)
      \/ top(s) <= bottom(o))

is_overlapping(s, o) ==
    ~(\/ right(s) < left(o)
      \/ left(s) > right(o)
      \/ bottom(s) > top(o)
      \/ top(s) < bottom(o))

\* Fp::from(2.0).
FpTwo == 2 * SCALE

expanded(s, offset) ==
    [pos  |-> Vector_sub(s.pos, offset),
     size |-> Vector_add(s.size, Vector_mul_fp(offset, FpTwo))]

\* Mutant of contracted: the size shrinks by the offset once, not twice.
contracted_single(s, offset) ==
    [pos  |-> Vector_add(s.pos, offset),
     size |-> Vector_sub(s.size, offset)]

contracted(s, offset) ==
    [pos  |-> Vector_add(s.pos, offset),
     size |-> Vector_sub(s.size, Vector_mul_fp(offset, FpTwo))]

(***************************************************************************)
(* The caller.                                                             *)
(***************************************************************************)
\* Rectangles built with Rect::from((i16, i16, i16, i16)): the fixtures of
\* src/src/test.rs, an edge-touching neighbour, a zero-width, and a
\* negative-size rectangle (the type permits it).
RectInputs ==
    { Rect_from(0, 0, 10, 10),  Rect_from(15, 15, 10, 10),
      Rect_from(5, 5, 10, 10),  Rect_from(2, 2, 5, 5),
      Rect_from(10, 33, 20, 30), Rect_from(10, 0, 10, 10),
      Rect_from(5, 5, 5, 5),    Rect_from(3, 3, 0, 4),
      Rect_from(8, 8, -4, -4) }

\* Vectors used as point, offset and normalize() input: the fixtures of
\* src/src/test.rs, and vectors of a few raw steps.
VectorInputs ==
    { Vector_from(5, 5), Vector_from(9, 5), Vector_from(10, 5),
      Vector_from(0, 0), Vector_from(18, -2), Vector_from(-1, -3),
      Vector_from(3, 4), Vector_from(7, 2),
      Vector_new(10 * SCALE - 1, 5 * SCALE),
      Vector_new(1, 0), Vector_new(0, -1), Vector_new(300, 0),
      Vector_new(32768, 16384) }

\* Right-hand sides of v += rhs.
AssignInputs == { Vector_from(5, 5), Vector_from(-20, 0) }

NoneResult == [some |-> FALSE, flag |-> FALSE, rect |-> ZeroRect, vec |-> ZeroVector]

VARIABLES
    r,      \* the rectangle operated on (self)
    other,  \* the second rectangle
    v,      \* the vector argument (point, offset or normalize input)
    prev,   \* r as it was before the last operation
    op,     \* the last operation applied
    res,    \* its result: Option tag, bool, Rect and Vector fields
    steps   \* value-changing operations applied so far

vars == <<r, other, v, prev, op, res, steps>>

Init ==
    /\ r \in RectInputs
    /\ other \in RectInputs
    /\ v \in VectorInputs
    /\ prev = r
    /\ op = "new"
    /\ res = NoneResult
    /\ steps = 0

\* A function returning a Rect: the caller keeps the result in r.
Produce(name, out) ==
    /\ steps < MaxSteps
    /\ prev' = r
    /\ r' = out
    /\ op' = name
    /\ res' = [NoneResult EXCEPT !.some = TRUE, !.rect = out]
    /\ steps' = steps + 1
    /\ UNCHANGED <<other, v>>

\* A function returning a bool.
Query(name, out) ==
    /\ prev' = r
    /\ op' = name
    /\ res' = [NoneResult EXCEPT !.some = TRUE, !.flag = out]
    /\ UNCHANGED <<r, other, v, steps>>

MoveBy == Produce("move_by", move_by(r, v))

Union == Produce("union", union(r, other))

Expanded == Produce("expanded", expanded(r, v))

Contracted == Produce("contracted", contracted(r, v))

IntersectionSome ==
    /\ intersection(r, other).some
    /\ Produce("intersection", intersection(r, other).rect)

IntersectionNone ==
    /\ ~intersection(r, other).some
    /\ prev' = r
    /\ op' = "intersection"
    /\ res' = NoneResult
    /\ UNCHANGED <<r, other, v, steps>>

ContainsPoint == Query("contains_point", contains_point(r, v))

ContainsRect == Query("contains_rect", contains_rect(r, other))

IsOverlapping == Query("is_overlapping", is_overlapping(r, other))

Normalize ==
    /\ prev' = r
    /\ op' = "normalize"
    /\ res' = [NoneResult EXCEPT !.some = normalize(v).some, !.vec = normalize(v).vec]
    /\ UNCHANGED <<r, other, v, steps>>

\* v += rhs: the one function that changes its receiver.
AddAssign ==
    \E rhs \in AssignInputs :
        /\ steps < MaxSteps
        /\ v' = add_assign(v, rhs)
        /\ prev' = r
        /\ op' = "add_assign"
        /\ res' = [NoneResult EXCEPT !.some = TRUE, !.vec = add_assign(v, rhs)]
        /\ steps' = steps + 1
        /\ UNCHANGED <<r, other>>

Next ==
    \/ AddAssign
    \/ MoveBy
    \/ Union
    \/ Expanded
    \/ Contracted
    \/ IntersectionSome
    \/ IntersectionNone
    \/ ContainsPoint
    \/ ContainsRect
    \/ IsOverlapping
    \/ Normalize

Spec == Init /\ [][Next]_vars


(***************************************************************************)
(* Properties.  Each is stated on raw integers, independently of the       *)
(* operators above, over the last operation the caller applied:            *)
(* prev is self, other and v are the arguments, r and res the result.      *)
(***************************************************************************)
IMin(m, n) == IF m <= n THEN m ELSE n

IMax(m, n) == IF m >= n THEN m ELSE n

\* lo <= c < lo + extent.
InHalfOpen(c, lo, extent) == lo <= c /\ c < lo + extent

\* The half-open containment test on both axes.
HalfOpenContains(s, pt) ==
    /\ InHalfOpen(pt.x, s.pos.x, s.size.x)
    /\ InHalfOpen(pt.y, s.pos.y, s.size.y)

\* C1: contains_point is true iff pos <= pt < pos + size on both axes (lower
\* bound inclusive, upper bound exclusive); on {pos:(0,0), size:(10,10)} the
\* points (5,5) and (9,5) are contained and (10,5) is not.
C1_ContainsPointHalfOpen ==
    op = "contains_point" =>
        /\ res.flag <=> HalfOpenContains(prev, v)
        /\ prev = Rect_from(0, 0, 10, 10) /\ v = Vector_from(5, 5) => res.flag
        /\ prev = Rect_from(0, 0, 10, 10) /\ v = Vector_from(9, 5) => res.flag
        /\ prev = Rect_from(0, 0, 10, 10) /\ v = Vector_from(10, 5) => ~res.flag

\* C1 witness: the point (10,5) on the exclusive right edge of (0,0,10,10)
\* is reported as not contained.
C1_Witness ==
    /\ op = "contains_point"
    /\ prev = Rect_from(0, 0, 10, 10)
    /\ v = Vector_from(10, 5)
    /\ ~res.flag

\* C2: intersection returns None exactly when min(hi) <= max(lo) on at least
\* one axis (disjoint and edge-touching rectangles included); otherwise Some
\* rect with pos = (max left, max bottom) and size = (min right - pos.x,
\* min top - pos.y), which has strictly positive width and height.
C2_IntersectionNoneIffEmpty ==
    op = "intersection" =>
        LET xlo == IMax(prev.pos.x, other.pos.x)
            xhi == IMin(prev.pos.x + prev.size.x, other.pos.x + other.size.x)
            ylo == IMax(prev.pos.y, other.pos.y)
            yhi == IMin(prev.pos.y + prev.size.y, other.pos.y + other.size.y)
        IN  /\ ~res.some <=> (xhi <= xlo \/ yhi <= ylo)
            /\ res.some =>
                /\ res.rect.pos = [x |-> xlo, y |-> ylo]
                /\ res.rect.size = [x |-> xhi - xlo, y |-> yhi - ylo]
                /\ res.rect.size.x > 0
                /\ res.rect.size.y > 0
                /\ r = res.rect

\* C2 witness: (0,0,10,10) and its edge-touching neighbour (10,0,10,10)
\* have no intersection.
C2_Witness ==
    /\ op = "intersection"
    /\ prev = Rect_from(0, 0, 10, 10)
    /\ other = Rect_from(10, 0, 10, 10)
    /\ ~res.some

\* Fp::from(0.01), the tolerance src/src/test.rs allows on a squared length.
NormTolerance == 655

\* C3: normalize on the zero vector returns None, and on any non-zero vector
\* (components of the smallest representable magnitude included) returns
\* Some vector whose sqr_len is within a small tolerance of 1.
C3_NormalizeUnitLength ==
    op = "normalize" =>
        IF v = ZeroVector
        THEN ~res.some
        ELSE /\ res.some
             /\ Abs(sqr_len(res.vec) - SCALE) <= NormTolerance

\* C4: union always returns a rectangle, for overlapping and non-overlapping
\* inputs alike: its pos is (min of the lefts, min of the bottoms) and its far
\* corner pos + size is (max of the rights, max of the tops).
C4_UnionBoundingBox ==
    op = "union" =>
        /\ res.some
        /\ r = res.rect
        /\ r.pos.x = IMin(prev.pos.x, other.pos.x)
        /\ r.pos.y = IMin(prev.pos.y, other.pos.y)
        /\ r.pos.x + r.size.x
             = IMax(prev.pos.x + prev.size.x, other.pos.x + other.size.x)
        /\ r.pos.y + r.size.y
             = IMax(prev.pos.y + prev.size.y, other.pos.y + other.size.y)

\* C4 witness: the union of the non-overlapping (0,0,10,10) and
\* (15,15,10,10) is (0,0,25,25).
C4_Witness ==
    /\ op = "union"
    /\ prev = Rect_from(0, 0, 10, 10)
    /\ other = Rect_from(15, 15, 10, 10)
    /\ r = Rect_from(0, 0, 25, 25)

\* C5: union is commutative, associative and idempotent, with exact
\* component-wise equality of pos and size; checked on every rectangle the
\* caller holds, against every input rectangle as the third operand.
C5_UnionAlgebra ==
    LET ro == union(r, other)
    IN  /\ ro = union(other, r)
        /\ union(r, r) = r
        /\ union(other, other) = other
        /\ \A c \in RectInputs :
             LET oc == union(other, c)
                 cr == union(c, r)
             IN  /\ union(ro, c) = union(r, oc)
                 /\ union(cr, other) = union(c, ro)
                 /\ union(r, c) = cr

\* C5 witness: a union of two different rectangles has been taken, gave a
\* third one, and taking it in the other order gives the same.
C5_Witness ==
    /\ op = "union"
    /\ prev = Rect_from(5, 5, 10, 10)
    /\ other = Rect_from(2, 2, 5, 5)
    /\ r = Rect_from(2, 2, 13, 13)
    /\ union(other, prev) = r

\* C6: is_overlapping is false iff self.right < other.left or self.left >
\* other.right or self.bottom > other.top or self.top < other.bottom; two
\* rectangles (of non-negative size, as right() and top() assume) with an
\* equal boundary coordinate on one axis that are not separated on the other
\* are reported as overlapping.
C6_IsOverlappingStrictSeparation ==
    op = "is_overlapping" =>
        LET sl == prev.pos.x
            sr == prev.pos.x + prev.size.x
            sb == prev.pos.y
            st == prev.pos.y + prev.size.y
            ol == other.pos.x
            or == other.pos.x + other.size.x
            ob == other.pos.y
            ot == other.pos.y + other.size.y
            normal == /\ prev.size.x >= 0 /\ prev.size.y >= 0
                      /\ other.size.x >= 0 /\ other.size.y >= 0
        IN  /\ ~res.flag <=> (sr < ol \/ sl > or \/ sb > ot \/ st < ob)
            /\ (normal /\ (sr = ol \/ sl = or) /\ ~(sb > ot \/ st < ob))
                 => res.flag
            /\ (normal /\ (st = ob \/ sb = ot) /\ ~(sr < ol \/ sl > or))
                 => res.flag

\* C6 witness: (0,0,10,10) and (10,0,10,10) share the edge x = 10 and are
\* reported as overlapping.
C6_Witness ==
    /\ op = "is_overlapping"
    /\ prev = Rect_from(0, 0, 10, 10)
    /\ other = Rect_from(10, 0, 10, 10)
    /\ res.flag

\* C7: contains_rect is true iff self contains other.pos and contains
\* other.pos + other.size, both under the half-open test; when other's far
\* corner lies exactly on self's right or top boundary the result is false.
C7_ContainsRectBothCorners ==
    op = "contains_rect" =>
        LET far == [x |-> other.pos.x + other.size.x,
                    y |-> other.pos.y + other.size.y]
        IN  /\ res.flag <=>
                (HalfOpenContains(prev, other.pos) /\ HalfOpenContains(prev, far))
            /\ far.x = prev.pos.x + prev.size.x => ~res.flag
            /\ far.y = prev.pos.y + prev.size.y => ~res.flag

\* C7 witness: (5,5,5,5) has its far corner (10,10) on the right and top
\* boundary of (0,0,10,10) and is reported as not contained.
C7_Witness ==
    /\ op = "contains_rect"
    /\ prev = Rect_from(0, 0, 10, 10)
    /\ other = Rect_from(5, 5, 5, 5)
    /\ ~res.flag

\* C8: expanded(o) yields pos - o and size + 2*o, contracted(o) yields
\* pos + o and size - 2*o, and each undoes the other exactly:
\* r.expanded(o).contracted(o) = r and r.contracted(o).expanded(o) = r.
C8_ContractedInvertsExpanded ==
    /\ op = "expanded" =>
         /\ r.pos = [x |-> prev.pos.x - v.x, y |-> prev.pos.y - v.y]
         /\ r.size = [x |-> prev.size.x + 2 * v.x, y |-> prev.size.y + 2 * v.y]
         /\ contracted(r, v) = prev
    /\ op = "contracted" =>
         /\ r.pos = [x |-> prev.pos.x + v.x, y |-> prev.pos.y + v.y]
         /\ r.size = [x |-> prev.size.x - 2 * v.x, y |-> prev.size.y - 2 * v.y]
         /\ expanded(r, v) = prev

\* C8 witness: (0,0,10,10) expanded by (18,-2) is (-18,2,46,6), and
\* contracting that by (18,-2) gives (0,0,10,10) back.
C8_Witness ==
    /\ op = "expanded"
    /\ prev = Rect_from(0, 0, 10, 10)
    /\ v = Vector_from(18, -2)
    /\ r = Rect_from(-18, 2, 46, 6)
    /\ contracted(r, v) = prev

\* C9: move_by returns a rect whose pos is the original pos + offset and
\* whose size is the original size; (10,33,20,30) moved by (18,-2) is
\* {pos:(28,31), size:(20,30)}.
C9_MoveByKeepsSize ==
    op = "move_by" =>
        /\ r.pos = [x |-> prev.pos.x + v.x, y |-> prev.pos.y + v.y]
        /\ r.size = prev.size
        /\ prev = Rect_from(10, 33, 20, 30) /\ v = Vector_from(18, -2)
             => r = Rect_from(28, 31, 20, 30)

\* C9 witness: (10,33,20,30) has been moved by (18,-2).
C9_Witness ==
    /\ op = "move_by"
    /\ prev = Rect_from(10, 33, 20, 30)
    /\ v = Vector_from(18, -2)
    /\ r = Rect_from(28, 31, 20, 30)

\* C10: for rects of non-negative size, contains_rect is true exactly when
\* other lies completely inside self (self.left <= other.left, self.bottom
\* <= other.bottom, other.right <= self.right, other.top <= self.top); in
\* particular r.contains_rect(r) is true.
C10_ContainsRectIsInclusion ==
    (/\ op = "contains_rect"
     /\ prev.size.x >= 0 /\ prev.size.y >= 0
     /\ other.size.x >= 0 /\ other.size.y >= 0) =>
        /\ res.flag <=>
             /\ prev.pos.x <= other.pos.x
             /\ prev.pos.y <= other.pos.y
             /\ other.pos.x + other.size.x <= prev.pos.x + prev.size.x
             /\ other.pos.y + other.size.y <= prev.pos.y + prev.size.y
        /\ other = prev => res.flag

\* Both size components are >= 0.
NonNegSize(s) == s.size.x >= 0 /\ s.size.y >= 0

\* C11: for rects of non-negative size, intersection is stricter than
\* is_overlapping: when a.intersection(b) is Some, a.is_overlapping(b) is
\* true; and when is_overlapping is true but intersection is None, the
\* overlap interval has zero width on at least one axis (min(hi) = max(lo)).
C11_IntersectionStricterThanOverlap ==
    LET xlo == IMax(prev.pos.x, other.pos.x)
        xhi == IMin(prev.pos.x + prev.size.x, other.pos.x + other.size.x)
        ylo == IMax(prev.pos.y, other.pos.y)
        yhi == IMin(prev.pos.y + prev.size.y, other.pos.y + other.size.y)
        normal == NonNegSize(prev) /\ NonNegSize(other)
    IN  /\ (op = "intersection" /\ normal /\ res.some)
             => is_overlapping(prev, other)
        /\ (op = "intersection" /\ normal /\ ~res.some
              /\ is_overlapping(prev, other))
             => (xhi = xlo \/ yhi = ylo)
        /\ (op = "is_overlapping" /\ normal /\ res.flag
              /\ ~intersection(prev, other).some)
             => (xhi = xlo \/ yhi = ylo)
        /\ (op = "is_overlapping" /\ normal /\ ~res.flag)
             => ~intersection(prev, other).some

\* C11 witness: (0,0,10,10) and (10,0,10,10) are overlapping, have no
\* intersection, and their overlap interval on x is [10, 10).
C11_Witness ==
    /\ op = "is_overlapping"
    /\ prev = Rect_from(0, 0, 10, 10)
    /\ other = Rect_from(10, 0, 10, 10)
    /\ res.flag
    /\ ~intersection(prev, other).some
    /\ IMin(prev.pos.x + prev.size.x, other.pos.x + other.size.x)
         = IMax(prev.pos.x, other.pos.x)

\* C12: non-negative size is preserved by every operation other than
\* contracted and expanded with a negative offset: from rects of non-negative
\* size, move_by, union, intersection (when Some) and expanded with a
\* non-negative offset give a rect of non-negative size, so every sequence of
\* them does (each step starts from the rect the step before produced); and
\* contracted gives a negative size on an axis exactly when the offset
\* exceeds half the size on that axis.
C12_NonNegativeSizePreserved ==
    /\ (op = "move_by" /\ NonNegSize(prev)) => NonNegSize(r)
    /\ (op = "union" /\ NonNegSize(prev) /\ NonNegSize(other))
         => NonNegSize(r)
    /\ (op = "intersection" /\ res.some /\ NonNegSize(prev) /\ NonNegSize(other))
         => NonNegSize(r)
    /\ (op = "expanded" /\ NonNegSize(prev) /\ v.x >= 0 /\ v.y >= 0)
         => NonNegSize(r)
    /\ (op = "contracted" /\ NonNegSize(prev)) =>
         /\ r.size.x < 0 <=> 2 * v.x > prev.size.x
         /\ r.size.y < 0 <=> 2 * v.y > prev.size.y

\* C12 witness: after the sequence move_by((7,2)), union from (0,0,10,10)
\* with (15,15,10,10), the rect (7,2,18,23) has non-negative size.
C12_Witness ==
    /\ steps = 2
    /\ op = "union"
    /\ v = Vector_from(7, 2)
    /\ prev = Rect_from(7, 2, 10, 10)
    /\ other = Rect_from(15, 15, 10, 10)
    /\ r = Rect_from(7, 2, 18, 23)
    /\ NonNegSize(r)

=============================================================================
